---- MODULE Spec2Model ----
(***************************************************************************)
(* Model of the three pool watchers of raydiumpoolsubscription:            *)
(*   alternate_main3.rs  TokenMonitor, the log-subscription watcher        *)
(*   alternate_main.rs   RaydiumPoolListener, the diff-polling watcher     *)
(*   main.rs             monitor_new_tokens, the signature-polling watcher *)
(* Each watcher is a state machine of its own (SpecMonitor, SpecListener,  *)
(* SpecPoller); extract_token_info is also exercised alone (SpecExtract).  *)
(* The Chain Gateway (RPC node, pubsub) and the file system are the        *)
(* environment: every answer they can give is an input chosen with \E.     *)
(***************************************************************************)
EXTENDS Integers, Sequences, FiniteSets, TLC

VARIABLES
    \* ---- alternate_main3.rs: TokenMonitor / run_token_monitor
    ray_fee,        \* the configured RAY_FEE string
    m_pc,           \* "init" | "constructed" | "listening" | "returned"
    m_result,       \* result of run_token_monitor: "none" | "Ok" | "Err"
    m_err,          \* which `?` produced the Err ("none" when there is none)
    data_file,      \* contents of data_path: the sequence of appended TokenData
    error_log,      \* contents of ERROR_LOG_PATH: the sequence of appended entries
    m_n,            \* number of receiver events so far (also the logical clock)
    m_last,         \* history: the last loop iteration (input, gateway answers, outcome)
    \* ---- alternate_main.rs: RaydiumPoolListener::start_listening
    l_pc,           \* "start" | "loop" | "returned"
    l_err,          \* which `?` ended start_listening ("none" while it runs)
    known_pools,    \* the Vec<Pubkey> known_pools
    l_ticks,        \* number of loop iterations started
    l_tick,         \* history: the last loop iteration
    l_emitted,      \* history: how often each address was reported as a new pool
    l_stable,       \* history: the addresses of the initial snapshot listed by every snapshot since
    \* ---- main.rs: monitor_new_tokens
    p_polls,        \* number of loop iterations
    p_stdout,       \* lines printed with println! in the last iteration
    p_stderr,       \* lines printed with eprintln! in the last iteration
    p_sleep,        \* seconds slept at the end of the last iteration
    p_emitted,      \* history: how often each polled signature string was taken up
    p_batch,        \* history: the answer of the last get_signatures_for_address
    \* ---- extract_token_info applied to one input
    x_pc,           \* "input" | "done"
    x_balances,     \* the balances slice
    x_is_quote,     \* the is_quote flag
    x_result,       \* "none" | [ok |-> TRUE, info |-> TokenInfo] | [ok |-> FALSE, err |-> msg]
    x_log,          \* the lines the call handed to the log macros
    \* ---- main.rs: store_data applied to one file
    s_file,         \* contents of the file at `path`: a sequence of extents
    s_calls,        \* number of store_data calls so far
    s_last          \* history: the last call (argument, file size met, outcome)

monitor_vars  == <<ray_fee, m_pc, m_result, m_err, data_file, error_log, m_n, m_last>>
listener_vars == <<l_pc, l_err, known_pools, l_ticks, l_tick, l_emitted, l_stable>>
poller_vars   == <<p_polls, p_stdout, p_stderr, p_sleep, p_emitted, p_batch>>
extract_vars  == <<x_pc, x_balances, x_is_quote, x_result, x_log>>
store_vars    == <<s_file, s_calls, s_last>>
vars == <<monitor_vars, listener_vars, poller_vars, extract_vars, store_vars>>

(***************************************************************************)
(* Bounds of the model                                                     *)
(***************************************************************************)
MaxNotifications == 2   \* receiver events per run of the subscription watcher
MaxTicks == 3           \* loop iterations of the diff-polling watcher
MaxPolls == 3           \* loop iterations of the signature-polling watcher
MaxBatch == 2           \* signatures in one get_signatures_for_address answer
MaxBalances == 2        \* records in one post_token_balances list (SpecExtract)
MaxStores == 2          \* store_data calls on one file (SpecStore)

(***************************************************************************)
(* Program constants                                                       *)
(***************************************************************************)
RAY_FEE == "YOUR_RAY_FEE_ADDRESS_HERE"
LP_OWNER == "5Q544fKrFoe6tsEbD7S8EmxGTJYAKtTVhAW5Q5pge4j1"
WSOL_MINT == "So11111111111111111111111111111111111111112"
ERROR_LOG_PATH == "error_new_lps_logs.txt"
raydium_address == "7YttLkHDoNj9wyDur5pM1ejNaAvT9X4eqaYcHQqtj2G5"
U8 == 256               \* `as u8` keeps the value modulo 2^8
SIZE_LIMIT == 1000000   \* main.rs store_data: the 1 MB limit

(***************************************************************************)
(* Sequence helpers                                                        *)
(***************************************************************************)
Range(s) == {s[i] : i \in 1..Len(s)}

NoDup(s) == \A i, j \in 1..Len(s) : i # j => s[i] # s[j]

SeqsUpTo(S, n) == UNION {[1..k -> S] : k \in 0..n}

\* the sequences that list distinct elements of S, at most n of them
DistinctSeqs(S, n) == {s \in SeqsUpTo(S, n) : NoDup(s)}

\* how many entries of s satisfy s[i].lp_signature = sig
RECURSIVE CountSig(_, _)
CountSig(s, sig) ==
    IF s = <<>> THEN 0
    ELSE (IF Head(s).lp_signature = sig THEN 1 ELSE 0) + CountSig(Tail(s), sig)

(***************************************************************************)
(* serde_json::Value, as far as the balance records use it.  A field that  *)
(* is absent (or of another JSON type) is JNull.                           *)
(***************************************************************************)
JNull == [t |-> "null"]
JStr(s) == [t |-> "str", s |-> s]
JNum(n) == [t |-> "num", n |-> n]

\* Value::as_str().unwrap_or_default()
as_str_or_default(v) == IF v.t = "str" THEN v.s ELSE ""

\* Value::as_u64().unwrap_or_default() as u8
as_u64_or_default_as_u8(v) == IF v.t = "num" THEN v.n % U8 ELSE 0

\* Value::as_f64().unwrap_or_default()
as_f64_or_default(v) == IF v.t = "num" THEN v.n ELSE 0

\* one entry of post_token_balances; decimals and uiAmount are the
\* sub-fields of uiTokenAmount
Balance(owner, mint, decimals, uiAmount) ==
    [owner |-> owner, mint |-> mint, decimals |-> decimals, uiAmount |-> uiAmount]

(***************************************************************************)
(* TokenMonitor::extract_token_info                                        *)
(***************************************************************************)
\* mutant of extract_matches: the owner is not compared with LP_OWNER
extract_matches_any_owner(balance, is_quote) ==
    LET mint == as_str_or_default(balance.mint)
    IN  IF is_quote THEN mint = WSOL_MINT ELSE mint # WSOL_MINT

\* mutant of extract_matches: the mint is not compared with WSOL_MINT
extract_matches_any_mint(balance, is_quote) ==
    as_str_or_default(balance.owner) = LP_OWNER

\* the closure handed to find(), lines 117-126
extract_matches(balance, is_quote) ==
    LET owner == as_str_or_default(balance.owner)
        mint  == as_str_or_default(balance.mint)
    IN  owner = LP_OWNER /\ (IF is_quote THEN mint = WSOL_MINT ELSE mint # WSOL_MINT)

\* Iterator::find: index of the first match, 0 when there is none
RECURSIVE find_from(_, _, _)
find_from(balances, is_quote, i) ==
    IF i > Len(balances) THEN 0
    ELSE IF extract_matches(balances[i], is_quote) THEN i
    ELSE find_from(balances, is_quote, i + 1)

\* mutant of extract_token_info: a missing record yields a zeroed TokenInfo
\* instead of the error
extract_token_info_or_default(balances, is_quote) ==
    LET i == find_from(balances, is_quote, 1)
    IN  IF i = 0
        THEN [ok |-> TRUE, info |-> [address |-> "", decimals |-> 0, lp_amount |-> 0]]
        ELSE [ok |-> TRUE,
              info |-> [address   |-> as_str_or_default(balances[i].mint),
                        decimals  |-> as_u64_or_default_as_u8(balances[i].decimals),
                        lp_amount |-> as_f64_or_default(balances[i].uiAmount)]]

extract_token_info(balances, is_quote) ==
    LET i == find_from(balances, is_quote, 1)
    IN  IF i = 0
        THEN [ok |-> FALSE, err |-> "Token info not found"]
        ELSE [ok |-> TRUE,
              info |-> [address   |-> as_str_or_default(balances[i].mint),
                        decimals  |-> as_u64_or_default_as_u8(balances[i].decimals),
                        lp_amount |-> as_f64_or_default(balances[i].uiAmount)]]

\* what extract_token_info hands to info!/warn!/error!: lines 114-138 hold
\* no log macro, whatever the record lacks
extract_token_info_log(balances, is_quote) == <<>>

(***************************************************************************)
(* The Chain Gateway's answers to the subscription watcher                 *)
(***************************************************************************)
ValidSignatures == {"sig1", "sig2"}

\* the "signature" field of a notification: a signature string, a string
\* that is no signature, or no string at all
LogSignatures == {JStr("sig1"), JStr("sig2"), JStr("not-base58"), JNull}

\* Signature::from_str
Signature_from_str(s) ==
    IF s \in ValidSignatures THEN [ok |-> TRUE, sig |-> s]
    ELSE [ok |-> FALSE, err |-> "invalid signature"]

\* Pubkey::from_str: the placeholder RAY_FEE is no base58 public key
Pubkey_from_str(s) ==
    IF s = raydium_address THEN [ok |-> TRUE, key |-> s]
    ELSE [ok |-> FALSE, err |-> "invalid pubkey"]

QuoteBalance == Balance(JStr(LP_OWNER), JStr(WSOL_MINT), JNum(9), JNum(5))
BaseBalance  == Balance(JStr(LP_OWNER), JStr("BaseMint"), JNum(6), JNum(1000))
OtherBalance == Balance(JStr("OtherOwner"), JStr("BaseMint"), JNum(6), JNum(3))

TxBalances == {QuoteBalance, BaseBalance, OtherBalance}

\* the post_token_balances lists of the fetched transactions: any of the
\* three records, each at most once, in any order
TxBalanceLists == DistinctSeqs(TxBalances, Cardinality(TxBalances))

\* a fetched transaction: meta is absent ("none"), carries an on-chain error
\* ("err") or reports success ("ok")
Tx(meta, account_keys, balances) ==
    [ok |-> TRUE, meta |-> meta, account_keys |-> account_keys,
     post_token_balances |-> balances]

TransportError == [ok |-> FALSE]
NotAsked == [asked |-> FALSE]

Transactions ==
    {Tx(m, <<"creator">>, <<QuoteBalance, BaseBalance>>) : m \in {"none", "err"}}
    \cup {Tx("ok", k, b) : k \in {<<>>, <<"creator">>},
                           b \in TxBalanceLists}

\* what rpc_client.get_transaction can answer
FetchAnswers == {TransportError} \cup Transactions

(***************************************************************************)
(* TokenMonitor::parse_transaction                                         *)
(* Result<Option<TokenData>>: [ok, some, data] or [ok |-> FALSE, err]      *)
(***************************************************************************)
Err(msg) == [ok |-> FALSE, err |-> msg]
OkNone == [ok |-> TRUE, some |-> FALSE]
OkSome(data) == [ok |-> TRUE, some |-> TRUE, data |-> data]

\* mutant of is_failed_or_no_meta: the on-chain error is not looked at
is_no_meta(transaction) == transaction.meta = "none"

\* lines 75-82: no metadata, or metadata with an on-chain error
is_failed_or_no_meta(transaction) == transaction.meta \in {"none", "err"}

parse_transaction(signature, fetch, now) ==
    IF ~fetch.ok THEN Err("transport error")
    ELSE IF is_failed_or_no_meta(fetch) THEN OkNone
    ELSE IF Len(fetch.account_keys) = 0 THEN Err("No signer found")
    ELSE IF fetch.meta = "none" THEN Err("No transaction metadata")
    ELSE LET base_info  == extract_token_info(fetch.post_token_balances, FALSE)
             quote_info == extract_token_info(fetch.post_token_balances, TRUE)
         IN  IF ~base_info.ok THEN Err(base_info.err)
             ELSE IF ~quote_info.ok THEN Err(quote_info.err)
             ELSE OkSome([lp_signature |-> signature,
                          creator      |-> fetch.account_keys[1],
                          timestamp    |-> now,
                          base_info    |-> base_info.info,
                          quote_info   |-> quote_info.info])

(***************************************************************************)
(* TokenMonitor::store_data: open(create, append), write the record        *)
(* io_ok = FALSE: the open fails and nothing is written                    *)
(***************************************************************************)
\* mutant of store_data: the record is put in front of the file
store_data_prepend(file, data, io_ok) ==
    IF io_ok THEN [ok |-> TRUE, file |-> <<data>> \o file]
    ELSE [ok |-> FALSE, err |-> "io error", file |-> file]

store_data(file, data, io_ok) ==
    IF io_ok THEN [ok |-> TRUE, file |-> Append(file, data)]
    ELSE [ok |-> FALSE, err |-> "io error", file |-> file]

(***************************************************************************)
(* TokenMonitor::log_error: open(create, append) ERROR_LOG_PATH, write     *)
(***************************************************************************)
log_error(log, error, now, io_ok) ==
    IF io_ok THEN [ok |-> TRUE, log |-> Append(log, [error |-> error, timestamp |-> now])]
    ELSE [ok |-> FALSE, err |-> "io error", log |-> log]

(***************************************************************************)
(* TokenMonitor::handle_log_notification                                   *)
(***************************************************************************)
handle_log_notification(file, logs_signature, fetch, now, data_io) ==
    IF logs_signature.t # "str" THEN Err("No signature in logs") @@ [file |-> file]
    ELSE LET signature == Signature_from_str(logs_signature.s)
         IN  IF ~signature.ok THEN Err(signature.err) @@ [file |-> file]
             ELSE LET parsed == parse_transaction(signature.sig, fetch, now)
                  IN  IF ~parsed.ok THEN Err(parsed.err) @@ [file |-> file]
                      ELSE IF ~parsed.some THEN [ok |-> TRUE, file |-> file]
                      ELSE store_data(file, parsed.data, data_io)

(***************************************************************************)
(* run_token_monitor and TokenMonitor::monitor_new_tokens                  *)
(***************************************************************************)
\* a record an earlier run may have left in data_path
PriorRecord ==
    [lp_signature |-> "sig1", creator |-> "creator", timestamp |-> 0,
     base_info  |-> [address |-> "BaseMint", decimals |-> 6, lp_amount |-> 1000],
     quote_info |-> [address |-> WSOL_MINT, decimals |-> 9, lp_amount |-> 5]]

NoLast == [kind |-> "none"]

MonitorIdle ==
    /\ ray_fee = RAY_FEE
    /\ m_pc = "init"
    /\ m_result = "none"
    /\ m_err = "none"
    /\ data_file = <<>>
    /\ error_log = <<>>
    /\ m_n = 0
    /\ m_last = NoLast

MonitorInit ==
    /\ ray_fee \in {RAY_FEE, raydium_address}
    /\ m_pc = "init"
    /\ m_result = "none"
    /\ m_err = "none"
    /\ data_file \in {<<>>, <<PriorRecord>>}
    /\ error_log = <<>>
    /\ m_n = 0
    /\ m_last = NoLast

MonitorReturn(result, err) ==
    /\ m_pc' = "returned"
    /\ m_result' = result
    /\ m_err' = err

\* run_token_monitor, line 216: TokenMonitor::new(...).await?
New ==
    /\ m_pc = "init"
    /\ \E connect_ok \in BOOLEAN :
          IF connect_ok
          THEN m_pc' = "constructed" /\ UNCHANGED <<m_result, m_err>>
          ELSE MonitorReturn("Err", "PubsubClient::new")
    /\ UNCHANGED <<ray_fee, data_file, error_log, m_n, m_last>>
    /\ UNCHANGED <<listener_vars, poller_vars, extract_vars, store_vars>>

\* monitor_new_tokens, lines 173-183: parse RAY_FEE, open the subscription
Subscribe ==
    /\ m_pc = "constructed"
    /\ \E subscribe_ok \in BOOLEAN :
          IF ~Pubkey_from_str(ray_fee).ok
          THEN subscribe_ok /\ MonitorReturn("Err", "Pubkey::from_str")
          ELSE IF ~subscribe_ok
          THEN MonitorReturn("Err", "logs_subscribe")
          ELSE m_pc' = "listening" /\ UNCHANGED <<m_result, m_err>>
    /\ UNCHANGED <<ray_fee, data_file, error_log, m_n, m_last>>
    /\ UNCHANGED <<listener_vars, poller_vars, extract_vars, store_vars>>

\* one iteration of the while-let loop, lines 185-190: recv() yields a
\* notification, it is handled, and a failure is handed to log_error
Notification ==
    /\ m_pc = "listening"
    /\ m_n < MaxNotifications
    /\ \E logs_signature \in LogSignatures, fetch \in FetchAnswers \cup {NotAsked},
          data_io \in {"ok", "failed", "unused"}, log_io \in {"ok", "failed", "unused"} :
          LET now      == m_n + 1
              asked    == logs_signature.t = "str" /\ Signature_from_str(logs_signature.s).ok
              parsed   == parse_transaction(logs_signature.s, fetch, now)
              stores   == asked /\ parsed.ok /\ parsed.some
              handled  == handle_log_notification(data_file, logs_signature, fetch, now,
                                                  data_io = "ok")
              logged   == log_error(error_log, handled.err, now, log_io = "ok")
          IN  /\ (fetch = NotAsked) <=> ~asked
              /\ (data_io = "unused") <=> ~stores
              /\ (log_io = "unused") <=> handled.ok
              /\ data_file' = handled.file
              /\ m_n' = now
              /\ m_last' = [kind |-> "notification", logs_signature |-> logs_signature,
                            fetch |-> fetch, data_io |-> data_io, log_io |-> log_io,
                            handled |-> handled.ok,
                            err |-> IF handled.ok THEN "" ELSE handled.err]
              /\ IF handled.ok
                 THEN UNCHANGED <<error_log, m_pc, m_result, m_err>>
                 ELSE /\ error_log' = logged.log
                      /\ IF logged.ok
                         THEN UNCHANGED <<m_pc, m_result, m_err>>
                         ELSE MonitorReturn("Err", "log_error")
    /\ UNCHANGED ray_fee
    /\ UNCHANGED <<listener_vars, poller_vars, extract_vars, store_vars>>

\* recv() yields None: the loop ends and line 192 returns Ok(())
ChannelClosed ==
    /\ m_pc = "listening"
    /\ MonitorReturn("Ok", "none")
    /\ m_last' = [kind |-> "closed"]
    /\ UNCHANGED <<ray_fee, data_file, error_log, m_n>>
    /\ UNCHANGED <<listener_vars, poller_vars, extract_vars, store_vars>>

MonitorNext == New \/ Subscribe \/ Notification \/ ChannelClosed

(***************************************************************************)
(* alternate_main.rs: RaydiumPoolListener                                  *)
(***************************************************************************)
Addresses == {"poolA", "poolB", "poolC"}

\* what get_program_accounts_with_config can list: each account once
Snapshots == DistinctSeqs(Addresses, Cardinality(Addresses))

SnapshotError == [ok |-> FALSE]

\* what the gateway can answer to get_program_accounts_with_config
SnapshotAnswers == {[ok |-> TRUE, accounts |-> s] : s \in Snapshots} \cup {SnapshotError}

\* get_existing_pools: the gateway's answer, its error passed on by `?`,
\* the account keys collected into a Vec
get_existing_pools(answer) ==
    IF ~answer.ok THEN [ok |-> FALSE, err |-> "get_program_accounts"]
    ELSE [ok |-> TRUE, pools |-> answer.accounts]

\* process_new_pool: get_account(pool_address)?, two printlns, Ok(())
process_new_pool(pool_address, failing) ==
    IF pool_address \in failing THEN [ok |-> FALSE, err |-> "get_account"]
    ELSE [ok |-> TRUE]

\* mutant of find_new_pools: known_pools is not consulted
RECURSIVE find_new_pools_all(_, _, _, _)
find_new_pools_all(current_pools, known, failing, i) ==
    IF i > Len(current_pools) THEN [ok |-> TRUE, emitted |-> <<>>, processed |-> <<>>]
    ELSE LET pool == current_pools[i]
             rest == find_new_pools_all(current_pools, known, failing, i + 1)
         IN  IF ~process_new_pool(pool, failing).ok
             THEN [ok |-> FALSE, emitted |-> <<pool>>, processed |-> <<>>]
             ELSE [ok |-> rest.ok, emitted |-> <<pool>> \o rest.emitted,
                   processed |-> <<pool>> \o rest.processed]

\* the for loop of lines 43-49 from position i on: the pools reported as
\* new, the pools processed, and whether a `?` left the loop
RECURSIVE find_new_pools(_, _, _, _)
find_new_pools(current_pools, known, failing, i) ==
    IF i > Len(current_pools) THEN [ok |-> TRUE, emitted |-> <<>>, processed |-> <<>>]
    ELSE LET pool == current_pools[i]
             rest == find_new_pools(current_pools, known, failing, i + 1)
         IN  IF pool \in Range(known) THEN rest
             ELSE IF ~process_new_pool(pool, failing).ok
             THEN [ok |-> FALSE, emitted |-> <<pool>>, processed |-> <<>>]
             ELSE [ok |-> rest.ok, emitted |-> <<pool>> \o rest.emitted,
                   processed |-> <<pool>> \o rest.processed]

RECURSIVE CountIn(_, _)
CountIn(s, x) ==
    IF s = <<>> THEN 0 ELSE (IF Head(s) = x THEN 1 ELSE 0) + CountIn(Tail(s), x)

\* mutant of update_known_pools: the new pools are added to the known ones
update_known_pools_union(known, current_pools) ==
    known \o SelectSeq(current_pools, LAMBDA pool : pool \notin Range(known))

\* line 52: known_pools = current_pools
update_known_pools(known, current_pools) == current_pools

ListenerIdle ==
    /\ l_pc = "start"
    /\ l_err = "none"
    /\ known_pools = <<>>
    /\ l_ticks = 0
    /\ l_tick = NoLast
    /\ l_emitted = [a \in Addresses |-> 0]
    /\ l_stable = {}

ListenerInit == ListenerIdle

\* lines 32-36: the initial snapshot
InitialSnapshot ==
    /\ l_pc = "start"
    /\ \E answer \in SnapshotAnswers :
          LET existing == get_existing_pools(answer)
          IN  /\ l_tick' = [kind |-> "initial", snapshot |-> answer]
              /\ IF existing.ok
                 THEN /\ known_pools' = existing.pools
                      /\ l_stable' = Range(existing.pools)
                      /\ l_pc' = "loop"
                      /\ UNCHANGED l_err
                 ELSE /\ l_pc' = "returned"
                      /\ l_err' = "get_existing_pools"
                      /\ UNCHANGED <<known_pools, l_stable>>
    /\ UNCHANGED <<l_ticks, l_emitted>>
    /\ UNCHANGED <<monitor_vars, poller_vars, extract_vars, store_vars>>

\* one iteration of the loop, lines 38-56
Tick ==
    /\ l_pc = "loop"
    /\ l_ticks < MaxTicks
    /\ \E answer \in SnapshotAnswers, failing \in SUBSET Addresses :
          LET current == get_existing_pools(answer)
              scan    == find_new_pools(current.pools, known_pools, failing, 1)
          IN  /\ l_ticks' = l_ticks + 1
              /\ IF ~current.ok
                 THEN /\ failing = {}
                      /\ l_tick' = [kind |-> "tick", known_before |-> known_pools,
                                    snapshot |-> answer, emitted |-> <<>>,
                                    failing |-> failing, completed |-> FALSE]
                      /\ l_pc' = "returned"
                      /\ l_err' = "get_existing_pools"
                      /\ UNCHANGED <<known_pools, l_emitted, l_stable>>
                 ELSE /\ failing \subseteq (Range(current.pools) \ Range(known_pools))
                      /\ l_tick' = [kind |-> "tick", known_before |-> known_pools,
                                    snapshot |-> answer, emitted |-> scan.emitted,
                                    failing |-> failing, completed |-> scan.ok]
                      /\ l_emitted' = [a \in Addresses |->
                                          l_emitted[a] + CountIn(scan.emitted, a)]
                      /\ l_stable' = l_stable \cap Range(current.pools)
                      /\ IF scan.ok
                         THEN /\ known_pools' = update_known_pools(known_pools, current.pools)
                              /\ UNCHANGED <<l_pc, l_err>>
                         ELSE /\ l_pc' = "returned"
                              /\ l_err' = "process_new_pool"
                              /\ UNCHANGED known_pools
    /\ UNCHANGED <<monitor_vars, poller_vars, extract_vars, store_vars>>

ListenerNext == InitialSnapshot \/ Tick

(***************************************************************************)
(* main.rs: monitor_new_tokens, polling get_signatures_for_address         *)
(***************************************************************************)
SignatureStrings == {"sig1", "sig2", "not-base58"}

\* what get_signatures_for_address can list: each signature once
Batches == DistinctSeqs(SignatureStrings, MaxBatch)

BatchError == [ok |-> FALSE]

\* what the gateway can answer to get_signatures_for_address
BatchAnswers == {[ok |-> TRUE, signatures |-> s] : s \in Batches} \cup {BatchError}

Line(text, about) == [text |-> text, about |-> about]

\* mutant of process_signatures: the first failure ends the for loop
RECURSIVE process_signatures_break(_, _, _)
process_signatures_break(signatures, failing, i) ==
    IF i > Len(signatures) THEN [stdout |-> <<>>, stderr |-> <<>>]
    ELSE LET s    == signatures[i]
             rest == process_signatures_break(signatures, failing, i + 1)
         IN  IF ~Signature_from_str(s).ok
             THEN [stdout |-> <<>>, stderr |-> <<Line("Error parsing signature", s)>>]
             ELSE IF s \in failing
             THEN [stdout |-> <<>>, stderr |-> <<Line("Error getting transaction", s)>>]
             ELSE [stdout |-> <<Line("Transaction JSON", s)>> \o rest.stdout,
                   stderr |-> rest.stderr]

\* the for loop of lines 58-115 from position i on: the lines it prints
RECURSIVE process_signatures(_, _, _)
process_signatures(signatures, failing, i) ==
    IF i > Len(signatures) THEN [stdout |-> <<>>, stderr |-> <<>>]
    ELSE LET s    == signatures[i]
             rest == process_signatures(signatures, failing, i + 1)
         IN  IF ~Signature_from_str(s).ok
             THEN [stdout |-> rest.stdout,
                   stderr |-> <<Line("Error parsing signature", s)>> \o rest.stderr]
             ELSE IF s \in failing
             THEN [stdout |-> rest.stdout,
                   stderr |-> <<Line("Error getting transaction", s)>> \o rest.stderr]
             ELSE [stdout |-> <<Line("Transaction JSON", s)>> \o rest.stdout,
                   stderr |-> rest.stderr]

PollerIdle ==
    /\ p_polls = 0
    /\ p_stdout = <<>>
    /\ p_stderr = <<>>
    /\ p_sleep = 0
    /\ p_emitted = [s \in SignatureStrings |-> 0]
    /\ p_batch = NoLast

PollerInit == PollerIdle

\* one iteration of the loop, lines 48-118
Poll ==
    /\ p_polls < MaxPolls
    /\ \E answer \in BatchAnswers, failing \in SUBSET ValidSignatures :
          /\ p_polls' = p_polls + 1
          /\ p_batch' = [kind |-> "poll", answer |-> answer, failing |-> failing]
          /\ IF ~answer.ok
             THEN /\ failing = {}
                  /\ p_stdout' = <<>>
                  /\ p_stderr' = <<Line("Error getting signatures", "")>>
                  /\ p_sleep' = 10
                  /\ UNCHANGED p_emitted
             ELSE LET out == process_signatures(answer.signatures, failing, 1)
                  IN  /\ failing \subseteq Range(answer.signatures)
                      /\ p_stdout' = out.stdout
                      /\ p_stderr' = out.stderr
                      /\ p_sleep' = 2
                      /\ p_emitted' = [s \in SignatureStrings |->
                                          p_emitted[s] + CountIn(answer.signatures, s)]
    /\ UNCHANGED <<monitor_vars, listener_vars, extract_vars, store_vars>>

PollerNext == Poll

(***************************************************************************)
(* extract_token_info applied to one list of balance records               *)
(***************************************************************************)
Owners == {JStr(LP_OWNER), JStr("OtherOwner"), JNull}
Mints == {JStr(WSOL_MINT), JStr("BaseMint"), JNull}
\* the uiTokenAmount of a record: <<decimals, uiAmount>>
UiTokenAmounts ==
    {<<JNum(9), JNum(5)>>, <<JNum(6), JNum(1000)>>, <<JNum(255), JNum(0)>>, <<JNull, JNull>>}

BalanceRecords ==
    {Balance(o, m, a[1], a[2]) : o \in Owners, m \in Mints, a \in UiTokenAmounts}

ExtractIdle ==
    /\ x_pc = "input"
    /\ x_balances = <<>>
    /\ x_is_quote = FALSE
    /\ x_result = "none"
    /\ x_log = <<>>

ExtractInit ==
    /\ x_pc = "input"
    /\ x_balances \in SeqsUpTo(BalanceRecords, MaxBalances)
    /\ x_is_quote \in BOOLEAN
    /\ x_result = "none"
    /\ x_log = <<>>

Extract ==
    /\ x_pc = "input"
    /\ x_pc' = "done"
    /\ x_result' = extract_token_info(x_balances, x_is_quote)
    /\ x_log' = extract_token_info_log(x_balances, x_is_quote)
    /\ UNCHANGED <<x_balances, x_is_quote>>
    /\ UNCHANGED <<monitor_vars, listener_vars, poller_vars, store_vars>>

ExtractNext == Extract

(***************************************************************************)
(* main.rs: store_data(path, data)                                         *)
(* The file is a sequence of extents [data, len, cut]: what was written,   *)
(* how long it is, and whether its front has been overwritten.             *)
(***************************************************************************)
Extent(data, len) == [data |-> data, len |-> len, cut |-> FALSE]

\* metadata().len()
RECURSIVE file_len(_)
file_len(file) == IF file = <<>> THEN 0 ELSE Head(file).len + file_len(Tail(file))

\* what is left of the file behind its first n units
RECURSIVE behind(_, _)
behind(file, n) ==
    IF n = 0 \/ file = <<>> THEN file
    ELSE IF Head(file).len <= n THEN behind(Tail(file), n - Head(file).len)
    ELSE <<[data |-> Head(file).data, len |-> Head(file).len - n, cut |-> TRUE]>>
         \o Tail(file)

\* OpenOptions::new().write(true).create(true): neither append nor truncate,
\* the cursor is at offset 0 and the write replaces what was there
write_from_start(file, extent) == <<extent>> \o behind(file, extent.len)

\* serde_json::to_string(data) followed by writeln!'s newline: one unit for
\* the object, one for each token, one for the newline
json_line(data) == Extent(data, Len(data.tokens) + 2)

\* io = "open_failed": open (or metadata) fails and `?` returns the error;
\* io = "flush_failed": the BufWriter is flushed when it is dropped, the
\* error of that flush is discarded and Ok(()) is returned
main_store_data(file, data, io) ==
    IF io = "open_failed"
    THEN [ret |-> "Err", file |-> file, printed |-> FALSE]
    ELSE [ret |-> "Ok",
          file |-> IF io = "ok" THEN write_from_start(file, json_line(data)) ELSE file,
          printed |-> file_len(file) > SIZE_LIMIT]

\* the TokenInfo entries and the TokenData records handed to store_data
StoreTokens ==
    {<<>>,
     <<[address |-> "BaseMint", decimals |-> 6, lp_amount |-> 1000]>>,
     <<[address |-> "BaseMint", decimals |-> 6, lp_amount |-> 1000],
       [address |-> WSOL_MINT, decimals |-> 9, lp_amount |-> 5]>>}

StoreRecords(now) ==
    {[lp_signature |-> sig, creator |-> "creator", timestamp |-> now, tokens |-> t] :
        sig \in ValidSignatures, t \in StoreTokens}

\* the files store_data can meet: none yet, or earlier records of a length
\* at or above the limit
EarlierRecords == [earlier |-> TRUE]

InitialFiles ==
    {<<>>, <<Extent(EarlierRecords, SIZE_LIMIT)>>,
     <<Extent(EarlierRecords, SIZE_LIMIT + 1)>>}

StoreIdle ==
    /\ s_file = <<>>
    /\ s_calls = 0
    /\ s_last = NoLast

StoreInit ==
    /\ s_file \in InitialFiles
    /\ s_calls = 0
    /\ s_last = NoLast

\* one call of store_data, lines 121-136
StoreData ==
    /\ s_calls < MaxStores
    /\ \E data \in StoreRecords(s_calls + 1), io \in {"ok", "open_failed", "flush_failed"} :
          LET stored == main_store_data(s_file, data, io)
          IN  /\ s_file' = stored.file
              /\ s_calls' = s_calls + 1
              /\ s_last' = [kind |-> "call", data |-> data, io |-> io,
                            size_before |-> file_len(s_file),
                            ret |-> stored.ret, printed |-> stored.printed]
    /\ UNCHANGED <<monitor_vars, listener_vars, poller_vars, extract_vars>>

StoreNext == StoreData

(***************************************************************************)
(* Specifications: one watcher runs, the others stay as constructed        *)
(***************************************************************************)
InitMonitor  == MonitorInit /\ ListenerIdle /\ PollerIdle /\ ExtractIdle /\ StoreIdle
InitListener == ListenerInit /\ MonitorIdle /\ PollerIdle /\ ExtractIdle /\ StoreIdle
InitPoller   == PollerInit /\ MonitorIdle /\ ListenerIdle /\ ExtractIdle /\ StoreIdle
InitExtract  == ExtractInit /\ MonitorIdle /\ ListenerIdle /\ PollerIdle /\ StoreIdle
InitStore    == StoreInit /\ MonitorIdle /\ ListenerIdle /\ PollerIdle /\ ExtractIdle

SpecMonitor  == InitMonitor /\ [][MonitorNext]_vars
SpecListener == InitListener /\ [][ListenerNext]_vars
SpecPoller   == InitPoller /\ [][PollerNext]_vars
SpecExtract  == InitExtract /\ [][ExtractNext]_vars
SpecStore    == InitStore /\ [][StoreNext]_vars

Init == MonitorInit /\ ListenerInit /\ PollerInit /\ ExtractIdle /\ StoreIdle
Next == MonitorNext \/ ListenerNext \/ PollerNext
Spec == Init /\ [][Next]_vars

(***************************************************************************)
(* Properties                                                              *)
(***************************************************************************)
\* the last loop iteration of the subscription watcher fetched a transaction
Fetched == m_last.kind = "notification" /\ m_last.fetch # NotAsked /\ m_last.fetch.ok

\* the last loop iteration decoded a TokenData and appended it
Stored == Fetched /\ m_last.handled /\ m_last.data_io = "ok"

\* no record of data_file is older than this run
StartedEmpty == \A i \in 1..Len(data_file) : data_file[i].timestamp > 0

\* C1 (Dedup): once a notification whose transaction decodes has been
\* processed, the store holds exactly one record with its signature, however
\* often that signature was delivered.
C1_Dedup ==
    (Stored /\ StartedEmpty) => CountSig(data_file, m_last.logs_signature.s) = 1

\* C2 (Loop resilience): when processing one new pool fails, the
\* diff-polling loop is still running afterwards.
C2_LoopResilience ==
    (l_tick.kind = "tick" /\ l_tick.failing # {}) => l_pc = "loop"

\* C3 (Diff-polling emission): in every tick whose snapshot query succeeded,
\* the addresses reported as new are exactly those of the snapshot that are
\* not in the known set, each reported once.
C3_DiffEmission ==
    (l_tick.kind = "tick" /\ l_tick.snapshot.ok) =>
        /\ Range(l_tick.emitted)
              = Range(l_tick.snapshot.accounts) \ Range(l_tick.known_before)
        /\ NoDup(l_tick.emitted)

\* C4 (No repeated report): within one run no signature is taken up as a
\* candidate more than once.
C4_NeverTwice == \A s \in SignatureStrings : p_emitted[s] <= 1

\* C5 (Closure is a failure): when the notification channel is closed, the
\* monitoring operation ends with an error for its caller, never with Ok.
C5_ClosureIsFailure == (m_last.kind = "closed") => m_result = "Err"

\* C6 (Snapshot failure tolerated): after a failed snapshot query, the
\* initial one included, the loop has not ended and the known set is as it
\* was before the query.
C6_SnapshotFailureTolerated ==
    (l_tick.kind \in {"initial", "tick"} /\ ~l_tick.snapshot.ok) =>
        /\ l_pc # "returned"
        /\ l_tick.kind = "tick" => known_pools = l_tick.known_before

\* the balance records hold an LP-owned quote-mint entry / an LP-owned
\* entry of another mint
HasLpQuote(balances) ==
    \E i \in 1..Len(balances) :
        balances[i].owner = JStr(LP_OWNER) /\ balances[i].mint = JStr(WSOL_MINT)

HasLpBase(balances) ==
    \E i \in 1..Len(balances) :
        balances[i].owner = JStr(LP_OWNER) /\ balances[i].mint # JStr(WSOL_MINT)

\* a successful transaction with one side of the pair but not the other
OneSided(fetch) ==
    /\ fetch # NotAsked
    /\ fetch.ok
    /\ fetch.meta = "ok"
    /\ HasLpQuote(fetch.post_token_balances) # HasLpBase(fetch.post_token_balances)

\* the step is one iteration of the subscription loop
NotificationStep == m_n' = m_n + 1

\* C7 as stated (Rejection of incomplete data): a one-sided transaction adds
\* no record to the store and exactly one entry to the failure log.
C7_Original ==
    [][(NotificationStep /\ OneSided(m_last'.fetch)) =>
          /\ data_file' = data_file
          /\ Len(error_log') = Len(error_log) + 1]_vars

\* C7 as amended: a one-sided transaction adds no record to the store and
\* makes one attempt to log the failure; the attempt adds exactly one entry,
\* stamped with this candidate's time, when the failure log can be opened,
\* and none when it cannot.
C7_RejectIncomplete ==
    [][(NotificationStep /\ OneSided(m_last'.fetch)) =>
          /\ data_file' = data_file
          /\ ~m_last'.handled
          /\ m_last'.log_io \in {"ok", "failed"}
          /\ m_last'.log_io = "ok" =>
                /\ Len(error_log') = Len(error_log) + 1
                /\ SubSeq(error_log', 1, Len(error_log)) = error_log
                /\ error_log'[Len(error_log')].timestamp = m_n'
          /\ m_last'.log_io = "failed" => error_log' = error_log]_vars

\* C7 witness: a transaction with only the quote side was rejected and logged
C7_Witness ==
    /\ Fetched
    /\ m_last.fetch.meta = "ok"
    /\ m_last.fetch.account_keys = <<"creator">>
    /\ m_last.fetch.post_token_balances = <<QuoteBalance>>
    /\ m_last.log_io = "ok"
    /\ data_file = <<>>
    /\ Len(error_log) = 1
    /\ error_log[1].error = "Token info not found"

\* the TokenInfo carries the record's mint, decimals and ui amount
Carries(info, balance) ==
    /\ info.address = as_str_or_default(balance.mint)
    /\ balance.decimals.t = "num" => info.decimals = balance.decimals.n
    /\ balance.uiAmount.t = "num" => info.lp_amount = balance.uiAmount.n

\* the record is on the asked side: LP-owned, and of the quote mint exactly
\* when the quote side is asked for
OnSide(balance, is_quote) ==
    /\ balance.owner = JStr(LP_OWNER)
    /\ (balance.mint = JStr(WSOL_MINT)) <=> is_quote

\* C8 (Pairing correctness): extraction succeeds exactly when the list holds
\* a record on the asked side, and the TokenInfo it returns carries the
\* fields of such a record; a record of another owner is never the source.
C8_Pairing ==
    x_pc = "done" =>
        /\ x_result.ok <=> \E i \in 1..Len(x_balances) : OnSide(x_balances[i], x_is_quote)
        /\ x_result.ok =>
              \E i \in 1..Len(x_balances) :
                  /\ OnSide(x_balances[i], x_is_quote)
                  /\ Carries(x_result.info, x_balances[i])

\* C8 witness: the quote side is taken from the LP-owned record that follows
\* a quote-mint record of another owner
C8_Witness ==
    /\ x_pc = "done"
    /\ x_is_quote
    /\ x_balances = <<Balance(JStr("OtherOwner"), JStr(WSOL_MINT), JNum(6), JNum(1000)),
                      Balance(JStr(LP_OWNER), JStr(WSOL_MINT), JNum(9), JNum(5))>>
    /\ x_result = [ok |-> TRUE,
                   info |-> [address |-> WSOL_MINT, decimals |-> 9, lp_amount |-> 5]]

\* C9 (Not-an-event is silent): a fetched transaction whose metadata carries
\* an on-chain error changes neither the store nor the failure log, and the
\* loop is listening for the next notification afterwards.
C9_SilentSkip ==
    [][(NotificationStep /\ m_last'.fetch # NotAsked /\ m_last'.fetch.ok
            /\ m_last'.fetch.meta = "err") =>
          /\ data_file' = data_file
          /\ error_log' = error_log
          /\ m_pc' = "listening"]_vars

\* C9 witness: two notifications, the second one's transaction failed on
\* chain, and the loop is still listening
C9_Witness ==
    /\ Fetched
    /\ m_last.fetch.meta = "err"
    /\ m_n = 2
    /\ m_pc = "listening"

\* C10 (log_failure is best-effort): when the failure log cannot be written,
\* the watcher loop is still listening afterwards.
C10_LogFailureBestEffort ==
    (m_last.kind = "notification" /\ m_last.log_io = "failed") => m_pc = "listening"

\* the step is one call of main.rs store_data that wrote its record and
\* returned Ok
StoredOk == s_calls' = s_calls + 1 /\ s_last'.ret = "Ok" /\ s_last'.io = "ok"

\* C11 (Append-only store): every successful call of the append operation
\* adds exactly one record at the end of the log and leaves what was written
\* before as it was.
C11_AppendOnly ==
    [][StoredOk => s_file' = s_file \o <<json_line(s_last'.data)>>]_vars

\* C16 (Rotation signal): a call that meets a log longer than the threshold
\* returns something other than the plain success, and the log it leaves
\* still starts with everything it held before.
C16_RotationSignal ==
    [][(s_calls' = s_calls + 1 /\ s_last'.io = "ok" /\ s_last'.size_before > SIZE_LIMIT) =>
          /\ s_last'.ret # "Ok"
          /\ SubSeq(s_file', 1, Len(s_file)) = s_file]_vars

\* C12 (Idempotent restart): no record appended in this run carries the
\* signature of a record the log already held when the run started.
C12_RestartIdempotent ==
    \A i, j \in 1..Len(data_file) :
        (data_file[i].timestamp = 0 /\ data_file[j].timestamp > 0) =>
            data_file[i].lp_signature # data_file[j].lp_signature

C18_DeliveryOrder ==
    /\ \A i, j \in 1..Len(data_file) :
          i < j => data_file[i].timestamp < data_file[j].timestamp
    /\ \A i, j \in 1..Len(error_log) :
          i < j => error_log[i].timestamp < error_log[j].timestamp
    /\ \A i \in 1..Len(data_file) : data_file[i].timestamp <= m_n
    /\ \A i \in 1..Len(error_log) : error_log[i].timestamp <= m_n

\* C18 witness: sig2 was delivered first and sig1 second, and both are stored
C18_Witness ==
    /\ Len(data_file) = 2
    /\ data_file[1].lp_signature = "sig2" /\ data_file[1].timestamp = 1
    /\ data_file[2].lp_signature = "sig1" /\ data_file[2].timestamp = 2

\* C13 (Known set replaced): after every completed tick the known set is
\* exactly the snapshot of that tick, and every address of the snapshot that
\* the known set did not hold was reported in that tick, also one that had
\* been reported in an earlier tick.
C13_KnownReplaced ==
    (l_tick.kind = "tick" /\ l_tick.completed) =>
        /\ known_pools = l_tick.snapshot.accounts
        /\ \A a \in Range(l_tick.snapshot.accounts) \ Range(l_tick.known_before) :
              CountIn(l_tick.emitted, a) = 1

\* C13 witness: poolA appeared, left the snapshot, came back and was
\* reported a second time
C13_Witness ==
    /\ l_tick.kind = "tick"
    /\ l_tick.completed
    /\ l_tick.emitted = <<"poolA">>
    /\ l_emitted["poolA"] = 2
    /\ known_pools = <<"poolA">>

\* C20 (Initial snapshot is not reported): an address of the initial
\* snapshot that every later snapshot has listed was never reported as new.
C20_InitialNotEmitted == \A a \in l_stable : l_emitted[a] = 0

\* C20 witness: after two ticks poolA, known from the start, is still
\* listed, and poolB, which appeared later, was reported once
C20_Witness ==
    /\ l_pc = "loop"
    /\ l_ticks = 2
    /\ l_stable = {"poolA"}
    /\ l_emitted["poolA"] = 0
    /\ l_emitted["poolB"] = 1

\* C15 (Bounded retry with backoff): of two consecutive failing polls the
\* second is followed by a longer wait than the first.
C15_Backoff ==
    [][(p_polls' = p_polls + 1 /\ p_batch.kind = "poll" /\ ~p_batch.answer.ok
            /\ ~p_batch'.answer.ok) =>
          p_sleep' > p_sleep]_vars

\* the first record of the list on the asked side lacks its decimals or its
\* ui amount
Defaulted ==
    \E i \in 1..Len(x_balances) :
        /\ OnSide(x_balances[i], x_is_quote)
        /\ \A j \in 1..(i - 1) : ~OnSide(x_balances[j], x_is_quote)
        /\ x_balances[i].decimals.t # "num" \/ x_balances[i].uiAmount.t # "num"

\* C17 (Sentinel defaults with warning): when the selected record lacks a
\* numeric sub-field, extraction succeeds and a warning is logged.
C17_SentinelWarning ==
    (x_pc = "done" /\ Defaulted) => (x_result.ok /\ x_log # <<>>)

\* C19 (Batch resilience): after a poll that listed signatures, every listed
\* signature has its own line: a parse diagnostic, a fetch diagnostic or the
\* transaction output; a failed listing leaves its diagnostic; and the loop
\* can take its next iteration.
C19_BatchResilience ==
    /\ (p_batch.kind = "poll" /\ p_batch.answer.ok) =>
          /\ \A s \in Range(p_batch.answer.signatures) :
                IF s \notin ValidSignatures
                THEN Line("Error parsing signature", s) \in Range(p_stderr)
                ELSE IF s \in p_batch.failing
                THEN Line("Error getting transaction", s) \in Range(p_stderr)
                ELSE Line("Transaction JSON", s) \in Range(p_stdout)
          /\ Len(p_stdout) + Len(p_stderr) = Len(p_batch.answer.signatures)
    /\ (p_batch.kind = "poll" /\ ~p_batch.answer.ok) =>
          p_stderr = <<Line("Error getting signatures", "")>>
    /\ p_polls < MaxPolls => ENABLED Poll

\* C19 witness: the first signature of the batch did not parse and the
\* second was still fetched and printed
C19_Witness ==
    /\ p_batch.kind = "poll"
    /\ p_batch.answer.ok
    /\ p_batch.answer.signatures = <<"not-base58", "sig1">>
    /\ p_batch.failing = {}
    /\ p_stderr = <<Line("Error parsing signature", "not-base58")>>
    /\ p_stdout = <<Line("Transaction JSON", "sig1")>>

====
